---------------------------- MODULE Spec2Model ----------------------------
(***************************************************************************)
(* A model of scoreboard.py: the Scoreboard base class (image, b64_image,  *)
(* save_image, fit_text_to_length) and its two boards, Leaderboard and     *)
(* Head2Head.                                                              *)
(*                                                                         *)
(* Units.  Pillow's getlength returns a float with sub-pixel precision.    *)
(* Every horizontal length here is an integer number of sub-pixels, Sub to *)
(* the pixel, so that int(getlength(..)) is a real truncation.  Vertical   *)
(* positions of text are whole pixels; separator lines sit at quarter rows *)
(* and are kept in quarter pixels.                                         *)
(*                                                                         *)
(* Texts are sequences of one-character strings.  An entry is the tuple    *)
(* <<name, score>>, as in the source.                                      *)
(***************************************************************************)
EXTENDS Integers, Sequences, FiniteSets, TLC

VARIABLES
    kind,       \* the class of the board: "Leaderboard" or "Head2Head"
    entries,    \* the list object the board refers to (_ranking / teams)
    style,      \* the board's other attributes, set by __init__
    advance,    \* the font files: advance[file][size], sub-pixels per character
    given,      \* history: the list handed to the last constructor/assignment, as handed
    modified,   \* history: the list was changed in place since that assignment
    out         \* the last call and what it returned, wrote or raised

vars == <<kind, entries, style, advance, given, modified, out>>

---------------------------------------------------------------------------
(* Bounds of the model *)

MaxEntries == 2

MaxFontSize == 3

MaxWidth == 3

MaxNameLen == 5

Sub == 2

(* Constants of the program *)

width == 800

component_height == 500

---------------------------------------------------------------------------
(* Helpers standing for Python built-ins *)

Max(S) == CHOOSE x \in S : \A y \in S : y <= x

Digit(d) == CASE d = 0 -> "0" [] d = 1 -> "1" [] d = 2 -> "2" [] d = 3 -> "3" [] d = 4 -> "4" [] d = 5 -> "5" [] d = 6 -> "6" [] d = 7 -> "7" [] d = 8 -> "8" [] OTHER -> "9"

RECURSIVE StrNat(_)
StrNat(n) == IF n < 10 THEN <<Digit(n)>> ELSE Append(StrNat(n \div 10), Digit(n % 10))

str(n) == IF n < 0 THEN <<"-">> \o StrNat(0 - n) ELSE StrNat(n)

endswith(s, suffix) == Len(s) >= Len(suffix) /\ SubSeq(s, Len(s) - Len(suffix) + 1, Len(s)) = suffix

int(x) == x \div Sub

(* list.sort(key=lambda player: player[1], reverse=True): a stable sort on   *)
(* the score, descending; equal scores keep their order.                     *)
RECURSIVE insert(_, _)
insert(sorted, e) == IF sorted = <<>> THEN <<e>> ELSE IF Head(sorted)[2] >= e[2] THEN <<Head(sorted)>> \o insert(Tail(sorted), e) ELSE <<e>> \o sorted

RECURSIVE sort_from(_, _)
sort_from(sorted, rest) == IF rest = <<>> THEN sorted ELSE sort_from(insert(sorted, Head(rest)), Tail(rest))

Reverse(s) == [i \in 1..Len(s) |-> s[Len(s) + 1 - i]]

RECURSIVE insert_asc(_, _)
insert_asc(sorted, e) == IF sorted = <<>> THEN <<e>> ELSE IF Head(sorted)[2] <= e[2] THEN <<Head(sorted)>> \o insert_asc(Tail(sorted), e) ELSE <<e>> \o sorted

RECURSIVE sort_asc_from(_, _)
sort_asc_from(sorted, rest) == IF rest = <<>> THEN sorted ELSE sort_asc_from(insert_asc(sorted, Head(rest)), Tail(rest))

(* A sort that sorts ascending and reverses: descending, but not stable.     *)
sort_then_reverse(value) == Reverse(sort_asc_from(<<>>, value))

sort(value) == sort_from(<<>>, value)

---------------------------------------------------------------------------
(* Fonts: ImageFont.truetype, font_variant, getlength, getsize *)

Files == {"font_file", "font_file_bold"}

truetype(file, size) == [file |-> file, size |-> size]

font_variant(font, size) == [file |-> font.file, size |-> size]

getlength(font, text) == Len(text) * advance[font.file][font.size]

getsize_height(font, text) == font.size

---------------------------------------------------------------------------
(* Scoreboard.fit_text_to_length *)

RECURSIVE fit_loop_ge(_, _, _, _, _)
fit_loop_ge(text, font, max_length, font_size, n) == IF getlength(font, text) >= max_length /\ font_size > 1 THEN fit_loop_ge(text, font_variant(font, font_size - 1), max_length, font_size - 1, n + 1) ELSE [font |-> font, decrements |-> n]

(* The loop with >= for >: text that fits exactly is shrunk all the same.    *)
fit_text_to_length_ge(text, font, max_length) == fit_loop_ge(text, font, max_length, font.size, 0)

RECURSIVE fit_loop(_, _, _, _, _)
fit_loop(text, font, max_length, font_size, n) == IF getlength(font, text) > max_length /\ font_size > 1 THEN fit_loop(text, font_variant(font, font_size - 1), max_length, font_size - 1, n + 1) ELSE [font |-> font, decrements |-> n]

(* max_length is in sub-pixels.  The result carries the number of times the  *)
(* loop body ran beside the font the source returns.                         *)
fit_text_to_length(text, font, max_length) == fit_loop(text, font, max_length, font.size, 0)

---------------------------------------------------------------------------
(* Scoreboard.save_image: the path the image is written to *)

png == <<".", "p", "n", "g">>

save_path_always(file_name) == file_name \o png

save_path(file_name) == IF ~endswith(file_name, png) THEN file_name \o png ELSE file_name

---------------------------------------------------------------------------
(* Leaderboard._generate_image *)

adjusted_margin_top(s) == IF s.title # <<>> THEN s.margin_top + s.title_font_size + getsize_height(font_variant(truetype("font_file_bold", s.font_size), s.title_font_size), s.title) ELSE s.margin_top + s.font_size

img_height_flat(ranking, s) == adjusted_margin_top(s) + s.margin_bot + s.line_spacing

img_height(ranking, s) == adjusted_margin_top(s) + s.margin_bot + (Len(ranking) - 1) * (s.font_size + s.line_spacing) + s.line_spacing

Leaderboard_img_size(ranking, s) == <<width, img_height(ranking, s)>>

maxLength_no_score(s, numberTextLength, scoreTextLength) == (width - s.margin_left - s.margin_right) * Sub - numberTextLength

(* img_size[0] - margin_left - margin_right - numberTextLength - scoreTextLength, in sub-pixels *)
maxLength(s, numberTextLength, scoreTextLength) == (width - s.margin_left - s.margin_right) * Sub - numberTextLength - scoreTextLength

(* The three draw.text calls of row i (0-based, as enumerate counts).        *)
Leaderboard_row(ranking, s, i) ==
    LET entry == ranking[i + 1]
        font == truetype("font_file", s.font_size)
        font_bold == truetype("font_file_bold", s.font_size)
        y == adjusted_margin_top(s) + i * (s.font_size + s.line_spacing)
        color == IF i % 2 = 0 THEN "text_color" ELSE "text_color_alternate"
        numberText == str(i + 1) \o <<" ", " ">>
        scoreText == <<" ">> \o str(entry[2])
        nameText == entry[1]
        numberTextLength == getlength(font, numberText)
        scoreTextLength == getlength(font, scoreText)
        nameFont == fit_text_to_length(nameText, font_bold, maxLength(s, numberTextLength, scoreTextLength)).font
    IN  [number |-> [xy |-> <<s.margin_left * Sub, y>>, text |-> numberText, font |-> font, anchor |-> "ls"],
         score  |-> [xy |-> <<(width - s.margin_right) * Sub, y>>, text |-> scoreText, font |-> font, anchor |-> "rs"],
         name   |-> [xy |-> <<s.margin_left * Sub + numberTextLength, y>>, text |-> nameText, font |-> nameFont, anchor |-> "ls"],
         entry  |-> entry,
         fill   |-> color]

(* The y of the separator lines, in quarter pixels: one 0.75 rows above each *)
(* row and one 0.25 rows below the last.                                     *)
Leaderboard_lines(ranking, s) ==
    LET n == Len(ranking)
        row == s.font_size + s.line_spacing
    IN  IF s.seperator THEN [k \in 1..(n + 1) |-> IF k <= n THEN 4 * adjusted_margin_top(s) + (4 * (k - 1) - 3) * row ELSE 4 * adjusted_margin_top(s) + (4 * (n - 1) + 1) * row] ELSE <<>>

(* Image.new raises ValueError for a negative height; the closing separator  *)
(* reads the loop variable i, unbound when the ranking is empty.             *)
Leaderboard_generate_image(ranking, s) ==
    LET img_size == Leaderboard_img_size(ranking, s)
    IN  IF img_size[2] < 0 THEN [ok |-> FALSE, error |-> "ValueError"]
        ELSE IF s.seperator /\ Len(ranking) = 0 THEN [ok |-> FALSE, error |-> "UnboundLocalError"]
        ELSE [ok |-> TRUE,
              size |-> img_size,
              title |-> IF s.title # <<>> THEN <<[xy |-> <<(img_size[1] * Sub) \div 2, s.margin_top + s.title_font_size>>, text |-> s.title, anchor |-> "ms"]>> ELSE <<>>,
              rows |-> [k \in 1..Len(ranking) |-> Leaderboard_row(ranking, s, k - 1)],
              lines |-> Leaderboard_lines(ranking, s)]

---------------------------------------------------------------------------
(* Head2Head._generate_image *)

name_length(team, s, team_font) == int(getlength(team_font, team[1])) + s.margin_sides

RECURSIVE component_width_last(_, _, _, _)
component_width_last(teams, s, team_font, acc) == IF teams = <<>> THEN acc ELSE component_width_last(Tail(teams), s, team_font, IF name_length(Head(teams), s, team_font) > 0 THEN name_length(Head(teams), s, team_font) ELSE acc)

(* The loop of lines 289-293: component_size[0] starts at 0 and takes every  *)
(* name_length that exceeds it.                                              *)
RECURSIVE component_width(_, _, _, _)
component_width(teams, s, team_font, acc) == IF teams = <<>> THEN acc ELSE component_width(Tail(teams), s, team_font, IF name_length(Head(teams), s, team_font) > acc THEN name_length(Head(teams), s, team_font) ELSE acc)

score_margin(s) == IF s.rectangle THEN s.margin_sides + s.rectangle_margin ELSE s.margin_sides

(* The column loop over the teams sorted by score, as the ranking is.        *)
Head2Head_column_sorted(teams, s, i, x_spacing) ==
    LET team == sort(teams)[i + 1]
        score_font == truetype("font_file", s.score_font_size)
        team_font == truetype("font_file_bold", s.font_size)
        x2 == x_spacing + 2 * i * x_spacing
        adjusted_score_font == fit_text_to_length(str(team[2]), score_font, (component_height - score_margin(s)) * Sub).font
    IN  [name  |-> [x2 |-> x2, y |-> <<component_height, IF s.title # <<>> THEN 3 ELSE 4>>, text |-> team[1], font |-> team_font, anchor |-> "mm"],
         score |-> [x2 |-> x2, y |-> <<component_height * 2, 3>>, text |-> str(team[2]), font |-> adjusted_score_font, anchor |-> "mm"],
         entry |-> team,
         rectangle |-> s.rectangle]

(* Column i (0-based).  x2 is twice the x coordinate, in sub-pixels, so that *)
(* x_spacing/2 stays an integer; y is the fraction <<numerator, denominator>>.*)
Head2Head_column(teams, s, i, x_spacing) ==
    LET team == teams[i + 1]
        score_font == truetype("font_file", s.score_font_size)
        team_font == truetype("font_file_bold", s.font_size)
        x2 == x_spacing + 2 * i * x_spacing
        adjusted_score_font == fit_text_to_length(str(team[2]), score_font, (component_height - score_margin(s)) * Sub).font
    IN  [name  |-> [x2 |-> x2, y |-> <<component_height, IF s.title # <<>> THEN 3 ELSE 4>>, text |-> team[1], font |-> team_font, anchor |-> "mm"],
         score |-> [x2 |-> x2, y |-> <<component_height * 2, 3>>, text |-> str(team[2]), font |-> adjusted_score_font, anchor |-> "mm"],
         entry |-> team,
         rectangle |-> s.rectangle]

(* float(img_size[0]) / len(self.teams) raises ZeroDivisionError for no      *)
(* teams, after the canvas was allocated; the exception leaves the caller    *)
(* without an image.                                                         *)
Head2Head_generate_image(teams, s) ==
    LET team_font == truetype("font_file_bold", s.font_size)
        component_size == <<component_width(teams, s, team_font, 0), component_height>>
        img_size == <<component_size[1] * Len(teams), component_size[2]>>
    IN  IF Len(teams) = 0 THEN [ok |-> FALSE, error |-> "ZeroDivisionError"]
        ELSE LET x_spacing == (img_size[1] * Sub) \div Len(teams)
             IN  [ok |-> TRUE,
                  size |-> img_size,
                  title |-> IF s.title # <<>> THEN <<[xy |-> <<(img_size[1] * Sub) \div 2, <<img_size[2], 5>>>>, text |-> s.title, anchor |-> "ms"]>> ELSE <<>>,
                  columns |-> [k \in 1..Len(teams) |-> Head2Head_column(teams, s, k - 1, x_spacing)]]

(* Scoreboard.image: the abstract _generate_image of the board's class.      *)
image(k, e, s) == IF k = "Leaderboard" THEN Leaderboard_generate_image(e, s) ELSE Head2Head_generate_image(e, s)

---------------------------------------------------------------------------
(* The values the model draws its inputs from *)

Names == {<<"a">>, <<"b", "b">>}

Scores == {0, 1}

Entries == Names \X Scores

Lists == UNION {[1..n -> Entries] : n \in 0..MaxEntries}

Units == {1, 80, 120}

(* A scalable font: the advance of a character grows with the size.          *)
ScalableFont(u) == [f \in Files |-> [size \in 1..MaxFontSize |-> u * size]]

ScalableFonts == {ScalableFont(u) : u \in Units}

(* Any width function of the size at all, for fit_text_to_length alone.      *)
AnyFonts == {[f \in Files |-> w] : w \in [1..MaxFontSize -> 0..MaxWidth]}

Titles == {<<>>, <<"T">>}

Margins == {0, 50}

SideMargins == {0 - 50, 0, 50}

LineSpacings == {0 - 3, 0 - 1, 25}

Alphabet == {"b", ".", "p", "n", "g", "P"}

FileNames == UNION {[1..n -> Alphabet] : n \in 0..MaxNameLen}

SomeFileNames == {<<"b">>, <<"b">> \o png}

(* Leaderboard.__init__'s keyword defaults, the font sizes within the bound. *)
LeaderboardDefaults == [seperator |-> TRUE, font_size |-> MaxFontSize, margin_left |-> 50, margin_right |-> 50, margin_top |-> 50, margin_bot |-> 50, line_spacing |-> 25, title |-> <<>>, title_font_size |-> MaxFontSize]

(* Head2Head.__init__'s keyword defaults, the font sizes within the bound.   *)
Head2HeadDefaults == [font_size |-> MaxFontSize, score_font_size |-> MaxFontSize, title |-> <<>>, title_font_size |-> MaxFontSize, margin_sides |-> 50, rectangle |-> TRUE, rectangle_margin |-> 50]

LeaderboardStyles == [seperator : BOOLEAN, font_size : 1..MaxFontSize, margin_left : Margins, margin_right : Margins, margin_top : Margins, margin_bot : {50}, line_spacing : LineSpacings, title : Titles, title_font_size : {MaxFontSize}]

Head2HeadStyles == [font_size : 1..MaxFontSize, score_font_size : 1..MaxFontSize, title : Titles, title_font_size : {MaxFontSize}, margin_sides : SideMargins, rectangle : BOOLEAN, rectangle_margin : {50}]

---------------------------------------------------------------------------
(* The operations *)

OutputOps == {"image", "b64_image", "save_image"}

(* Leaderboard.__init__ / Head2Head.__init__: the ranking setter sorts the   *)
(* list it is handed and keeps that very list; teams is kept as handed.      *)
Construct(k, value, s, fonts) ==
    /\ kind = k
    /\ entries = IF k = "Leaderboard" THEN sort(value) ELSE value
    /\ style = s
    /\ advance = fonts
    /\ given = value
    /\ modified = FALSE
    /\ out = [op |-> "__init__"]

(* board.ranking = value (the setter) / board.teams = value *)
Assign(value) ==
    /\ entries' = IF kind = "Leaderboard" THEN sort(value) ELSE value
    /\ given' = value
    /\ modified' = FALSE
    /\ out' = [op |-> "assign"]
    /\ UNCHANGED <<kind, style, advance>>

(* board.ranking.append(e), or the same on the list the caller handed over:  *)
(* it is the one list object, stored without a copy.                         *)
AppendEntry(e) ==
    /\ Len(entries) < MaxEntries
    /\ entries' = Append(entries, e)
    /\ modified' = TRUE
    /\ out' = [op |-> "append"]
    /\ UNCHANGED <<kind, style, advance, given>>

(* board.ranking[i] = e *)
SetItem(i, e) ==
    /\ i \in 1..Len(entries)
    /\ entries' = [entries EXCEPT ![i] = e]
    /\ modified' = TRUE
    /\ out' = [op |-> "setitem"]
    /\ UNCHANGED <<kind, style, advance, given>>

(* A render that sorts the stored list again before it draws.               *)
Image_sorting ==
    /\ out' = [op |-> "image", image |-> image(kind, sort(entries), style)]
    /\ entries' = sort(entries)
    /\ UNCHANGED <<kind, style, advance, given, modified>>

(* board.image *)
Image ==
    /\ out' = [op |-> "image", image |-> image(kind, entries, style)]
    /\ UNCHANGED <<kind, entries, style, advance, given, modified>>

(* board.b64_image(): the data URI prefix and the encoded image.             *)
B64Image ==
    /\ out' = [op |-> "b64_image", image |-> image(kind, entries, style), prefix |-> "data:image/png;base64,"]
    /\ UNCHANGED <<kind, entries, style, advance, given, modified>>

(* board.save_image(file_name): nothing is written when the render raises.   *)
SaveImage(file_name) ==
    /\ out' = [op |-> "save_image", image |-> image(kind, entries, style), file_name |-> file_name, path |-> IF image(kind, entries, style).ok THEN save_path(file_name) ELSE <<>>]
    /\ UNCHANGED <<kind, entries, style, advance, given, modified>>

(* Scoreboard.fit_text_to_length(text, font, max_length), called directly.   *)
FitTextToLength(text, font, max_length) ==
    /\ out' = [op |-> "fit_text_to_length", text |-> text, font |-> font, max_length |-> max_length, result |-> fit_text_to_length(text, font, max_length)]
    /\ UNCHANGED <<kind, entries, style, advance, given, modified>>

---------------------------------------------------------------------------
(* Spec: boards of both classes with default styles and one font, any list,  *)
(* every operation.                                                          *)

Init ==
    \E value \in Lists, toggle \in BOOLEAN :
        \/ Construct("Leaderboard", value, [LeaderboardDefaults EXCEPT !.seperator = toggle], ScalableFont(80))
        \/ Construct("Head2Head", value, [Head2HeadDefaults EXCEPT !.rectangle = toggle], ScalableFont(80))

Next ==
    \/ \E value \in Lists : Assign(value)
    \/ \E e \in Entries : AppendEntry(e)
    \/ \E i \in 1..MaxEntries, e \in Entries : SetItem(i, e)
    \/ Image
    \/ B64Image
    \/ \E file_name \in SomeFileNames : SaveImage(file_name)

Spec == Init /\ [][Next]_vars

(* SpecLayout: boards of any style, rendered.                                *)

InitLayout ==
    \E value \in Lists, fonts \in ScalableFonts :
        \/ \E s \in LeaderboardStyles : Construct("Leaderboard", value, s, fonts)
        \/ \E s \in Head2HeadStyles : Construct("Head2Head", value, s, fonts)

NextLayout == Image

SpecLayout == InitLayout /\ [][NextLayout]_vars

(* SpecFit: fit_text_to_length on its own, under any width function.         *)

InitFit == \E fonts \in AnyFonts : Construct("Leaderboard", <<>>, LeaderboardDefaults, fonts)

NextFit == \E size \in 1..MaxFontSize, max_length \in (0 - 1)..(MaxWidth + 1) : FitTextToLength(<<"a">>, truetype("font_file", size), max_length)

SpecFit == InitFit /\ [][NextFit]_vars

(* SpecSave: one save_image under any file name.                             *)

InitSave == Construct("Leaderboard", <<<<<<"a">>, 1>>>>, LeaderboardDefaults, ScalableFont(80))

NextSave == out.op = "__init__" /\ \E file_name \in FileNames : SaveImage(file_name)

SpecSave == InitSave /\ [][NextSave]_vars

---------------------------------------------------------------------------
(* The claims *)

Rendered == out.op \in OutputOps /\ out.image.ok

RowEntries(img) == [k \in 1..Len(img.rows) |-> img.rows[k].entry]

ColumnEntries(img) == [k \in 1..Len(img.columns) |-> img.columns[k].entry]

Bijections(n) == {p \in [1..n -> 1..n] : \A i, j \in 1..n : p[i] = p[j] => i = j}

(* rows is input rearranged into non-increasing score order, equal scores    *)
(* in their input order                                                      *)
StableDescending(rows, input) ==
    /\ Len(rows) = Len(input)
    /\ \E p \in Bijections(Len(input)) :
        /\ \A i \in 1..Len(input) : rows[i] = input[p[i]]
        /\ \A i, j \in 1..Len(input) : i < j => input[p[i]][2] >= input[p[j]][2]
        /\ \A i, j \in 1..Len(input) : i < j /\ input[p[i]][2] = input[p[j]][2] => p[i] < p[j]

HasPngSuffix(t) == Len(t) >= 4 /\ t[Len(t) - 3] = "." /\ t[Len(t) - 2] = "p" /\ t[Len(t) - 1] = "n" /\ t[Len(t)] = "g"

(* C1 (SpecFit): fit_text_to_length runs its loop body at most (starting     *)
(* size - 1) times and returns the font, same file, whose size is the        *)
(* largest s in 1..starting size with width(text, s) <= max_length, or 1     *)
(* when there is none; a text that fits at the starting size gets the        *)
(* original font back after zero iterations.  The width function is any      *)
(* function of the size.                                                     *)
C1_FitLargestSize ==
    out.op = "fit_text_to_length" =>
        LET start == out.font.size
            fits(size) == getlength(font_variant(out.font, size), out.text) <= out.max_length
            good == {size \in 1..start : fits(size)}
        IN  /\ out.result.decrements <= start - 1
            /\ out.result.decrements = start - out.result.font.size
            /\ out.result.font.file = out.font.file
            /\ out.result.font.size >= 1
            /\ out.result.font.size = IF good # {} THEN Max(good) ELSE 1
            /\ fits(start) => out.result.font = out.font /\ out.result.decrements = 0

(* C1's case: a width function that is not monotone in the size, the font    *)
(* shrunk, and the result above size 1 although a smaller size does not fit. *)
C1_Witness ==
    /\ out.op = "fit_text_to_length"
    /\ out.result.decrements >= 1
    /\ out.result.font.size > 1
    /\ \E size \in 1..(out.result.font.size - 1) : getlength(font_variant(out.font, size), out.text) > out.max_length

(* C2 (Spec): a Leaderboard rendered after a construction or an assignment   *)
(* of ranking, the list not touched in between, draws the entries it was     *)
(* handed in non-increasing score order, equal scores in their input order,  *)
(* and labels row i (0-based) with rank i+1.                                 *)
C2_RowsStableDescending ==
    kind = "Leaderboard" /\ Rendered /\ ~modified =>
        /\ StableDescending(RowEntries(out.image), given)
        /\ \A k \in 1..Len(out.image.rows) : out.image.rows[k].number.text = str(k) \o <<" ", " ">>

(* C2's case: the input was not in score order and the render reordered it.  *)
C2_Witness ==
    /\ kind = "Leaderboard" /\ Rendered /\ ~modified
    /\ Len(given) = 2
    /\ given[1][2] < given[2][2]
    /\ RowEntries(out.image) # given

(* C3 as claimed (SpecLayout): for any Leaderboard style and any n >= 1      *)
(* entries, the canvas for n+1 entries is strictly higher than the canvas    *)
(* for n entries.                                                            *)
C3_HeightStrictlyIncreases ==
    kind = "Leaderboard" /\ Rendered /\ Len(entries) >= 1 =>
        \A e \in Entries :
            /\ Leaderboard_generate_image(Append(entries, e), style).ok
            /\ Leaderboard_generate_image(Append(entries, e), style).size[2] > out.image.size[2]

(* C3 amended (SpecLayout): the same, for the styles whose row height,       *)
(* font_size + line_spacing, is positive.                                    *)
C3_HeightIncreasesForPositiveRows ==
    kind = "Leaderboard" /\ Rendered /\ Len(entries) >= 1 /\ style.font_size + style.line_spacing > 0 =>
        \A e \in Entries :
            /\ Leaderboard_generate_image(Append(entries, e), style).ok
            /\ Leaderboard_generate_image(Append(entries, e), style).size[2] > out.image.size[2]

(* C3's case: a titled board of at least one entry and positive row height.  *)
C3_Witness ==
    /\ kind = "Leaderboard" /\ Rendered
    /\ Len(entries) >= 1
    /\ style.title # <<>>
    /\ style.line_spacing < 0
    /\ style.font_size + style.line_spacing > 0

(* C4 as claimed (SpecLayout): a Head2Head keeps its teams in input order,   *)
(* draws the entry at input position i in column i, and the column centres   *)
(* strictly increase with i.                                                 *)
C4_ColumnsInOrderStrict ==
    kind = "Head2Head" =>
        /\ entries = given
        /\ Rendered =>
            /\ ColumnEntries(out.image) = given
            /\ \A i, j \in 1..Len(out.image.columns) : i < j => out.image.columns[i].name.x2 < out.image.columns[j].name.x2

(* C4 amended (SpecLayout): the same, but the column centres strictly        *)
(* increase only when the column width is positive; when every name's whole- *)
(* pixel width plus the side margin is <= 0 the canvas is 0 wide and all     *)
(* centres are 0.  The score of a column is centred where its name is.       *)
C4_ColumnsInOrder ==
    kind = "Head2Head" =>
        /\ entries = given
        /\ Rendered =>
            /\ ColumnEntries(out.image) = given
            /\ \A i \in 1..Len(out.image.columns) : out.image.columns[i].name.text = given[i][1] /\ out.image.columns[i].score.text = str(given[i][2]) /\ out.image.columns[i].score.x2 = out.image.columns[i].name.x2
            /\ \A i, j \in 1..Len(out.image.columns) : i < j => out.image.columns[i].name.x2 <= out.image.columns[j].name.x2
            /\ out.image.size[1] > 0 => \A i, j \in 1..Len(out.image.columns) : i < j => out.image.columns[i].name.x2 < out.image.columns[j].name.x2
            /\ out.image.size[1] = 0 => \A i \in 1..Len(out.image.columns) : out.image.columns[i].name.x2 = 0

(* C4's case: two teams handed over in ascending score order, which a sort   *)
(* would swap, rendered on a canvas of positive width.                       *)
C4_Witness ==
    /\ kind = "Head2Head" /\ Rendered
    /\ Len(given) = 2
    /\ given[1][2] < given[2][2]
    /\ given[1][1] # given[2][1]
    /\ out.image.size[1] > 0

(* C5 as claimed (SpecLayout): for a non-empty list of teams the canvas is   *)
(* 500 high and columnWidth * n wide, columnWidth the maximum over the       *)
(* entries of (width of the name in the bold team font + side margin).       *)
C5_WidthIsMaxNameWidth ==
    kind = "Head2Head" /\ Rendered /\ Len(entries) >= 1 =>
        /\ out.image.size[2] = 500
        /\ out.image.size[1] * Sub = Len(entries) * Max({getlength(truetype("font_file_bold", style.font_size), entries[k][1]) + style.margin_sides * Sub : k \in 1..Len(entries)})

(* C5 amended (SpecLayout): columnWidth is the maximum of 0 and, over the    *)
(* entries, of (width of the name truncated to whole pixels + side margin).  *)
C5_WidthIsMaxTruncatedOrZero ==
    kind = "Head2Head" /\ Rendered /\ Len(entries) >= 1 =>
        /\ out.image.size[2] = 500
        /\ out.image.size[1] = Len(entries) * Max({0} \cup {(getlength(truetype("font_file_bold", style.font_size), entries[k][1]) \div Sub) + style.margin_sides : k \in 1..Len(entries)})

(* C5's case: two teams, the first name wider than the second, on a canvas   *)
(* of positive width.                                                        *)
C5_Witness ==
    /\ kind = "Head2Head" /\ Rendered
    /\ Len(entries) = 2
    /\ Len(entries[1][1]) > Len(entries[2][1])
    /\ out.image.size[1] > 2 * style.margin_sides
    /\ style.margin_sides > 0

(* C6 (SpecSave): save_image(file_name) writes to file_name when it ends in  *)
(* ".png", lower case, and to file_name + ".png" otherwise; the path always  *)
(* ends in ".png", normalising it again changes nothing, and file_name       *)
(* without the suffix and file_name + ".png" name the same path, where the   *)
(* same render of the board is written.                                      *)
C6_SavePathEndsInPng ==
    out.op = "save_image" /\ out.image.ok =>
        /\ HasPngSuffix(out.path)
        /\ HasPngSuffix(out.file_name) => out.path = out.file_name
        /\ ~HasPngSuffix(out.file_name) => out.path = out.file_name \o <<".", "p", "n", "g">>
        /\ save_path(out.path) = out.path
        /\ ~HasPngSuffix(out.file_name) => save_path(out.file_name \o <<".", "p", "n", "g">>) = out.path
        /\ out.image = image(kind, entries, style)

(* C6's case: a name that ends in ".Png", which is not the suffix.           *)
C6_Witness ==
    /\ out.op = "save_image" /\ out.image.ok
    /\ out.file_name = <<"b", ".", "P", "n", "g">>
    /\ out.path = <<"b", ".", "P", "n", "g", ".", "p", "n", "g">>

(* C7 (Spec): an output operation (image, b64_image, save_image) leaves the  *)
(* board's class, entries, style and fonts as they were, and an output       *)
(* operation that follows another one renders the same image.                *)
C7_OutputKeepsBoard ==
    [][out'.op \in OutputOps =>
        /\ kind' = kind /\ entries' = entries /\ style' = style /\ advance' = advance
        /\ out'.image = image(kind, entries, style)
        /\ out.op \in OutputOps => out'.image = out.image]_vars

(* C7's case: a list changed in place, out of score order, and rendered.     *)
C7_Witness ==
    /\ Rendered
    /\ out.op = "b64_image"
    /\ modified
    /\ Len(entries) = 2
    /\ entries[1][2] < entries[2][2]

(* C8 as claimed (Spec): rendering a Head2Head of zero entries completes     *)
(* and yields a canvas 0 wide and 500 high.                                  *)
C8_EmptyHead2HeadRenders ==
    kind = "Head2Head" /\ out.op \in OutputOps /\ Len(entries) = 0 =>
        out.image.ok /\ out.image.size = <<0, 500>>

(* C9 (SpecLayout): in every Leaderboard row the name is drawn left-anchored *)
(* at margin_left + rankWidth in the bold font at the largest size, at most  *)
(* font_size, whose width fits canvas width - margin_left - margin_right -   *)
(* rankWidth - scoreWidth (size 1 when none fits), the widths being those of *)
(* the row's own rank and score texts; the score is right-anchored at canvas *)
(* width - margin_right; and unless the name's size is 1 its right edge does *)
(* not pass the score's left edge.                                           *)
C9_NameClearOfScore ==
    kind = "Leaderboard" /\ Rendered =>
        \A k \in 1..Len(out.image.rows) :
            LET row == out.image.rows[k]
                rankWidth == getlength(row.number.font, row.number.text)
                scoreWidth == getlength(row.score.font, row.score.text)
                budget == (800 - style.margin_left - style.margin_right) * Sub - rankWidth - scoreWidth
                nameWidth(size) == getlength([file |-> "font_file_bold", size |-> size], row.name.text)
                good == {size \in 1..style.font_size : nameWidth(size) <= budget}
            IN  /\ row.number.text = str(k) \o <<" ", " ">> /\ row.score.text = <<" ">> \o str(row.entry[2]) /\ row.name.text = row.entry[1]
                /\ row.number.font = [file |-> "font_file", size |-> style.font_size] /\ row.score.font = row.number.font
                /\ row.name.anchor = "ls" /\ row.name.xy[1] = style.margin_left * Sub + rankWidth
                /\ row.score.anchor = "rs" /\ row.score.xy[1] = (800 - style.margin_right) * Sub
                /\ row.name.font.file = "font_file_bold"
                /\ row.name.font.size = IF good # {} THEN Max(good) ELSE 1
                /\ row.name.font.size > 1 => row.name.xy[1] + nameWidth(row.name.font.size) <= row.score.xy[1] - scoreWidth

(* C9's case: a name that did not fit at the base size and was shrunk to a   *)
(* size above 1.                                                             *)
C9_Witness ==
    /\ kind = "Leaderboard" /\ Rendered
    /\ \E k \in 1..Len(out.image.rows) : out.image.rows[k].name.font.size > 1 /\ out.image.rows[k].name.font.size < style.font_size

(* C10 as claimed (Spec): at every render of a Leaderboard, whatever         *)
(* assignments and in-place changes of the list came before, the rows are    *)
(* in non-increasing score order.                                            *)
C10_RowsAlwaysDescending ==
    kind = "Leaderboard" /\ Rendered =>
        \A i, j \in 1..Len(out.image.rows) : i < j => out.image.rows[i].entry[2] >= out.image.rows[j].entry[2]

=============================================================================
